---- MODULE Spec2Model ----
(***************************************************************************)
(* Model of codar.cheetah: the run materializer                            *)
(* (launchers.py, Launcher.create_group_directory) and the status          *)
(* aggregation engine (status.py, print_campaign_status and                *)
(* get_workflow_status).                                                   *)
(***************************************************************************)
EXTENDS Bags, FiniteSets, Integers, Sequences, TLC

VARIABLES
    \* ---- launchers.py: the Launcher object and the file system it writes
    scheduler_supported,  \* os.path.isdir(script_dir) for self.scheduler_name
    output_directory,     \* TRUE iff self.output_directory exists on disk
    group_env,            \* TRUE iff output_directory/group-env.sh is written
    fobs,                 \* output_directory/fobs.json: NoFile or its lines
    run_dirs,             \* per run: the content of run.run_path
    runs,                 \* the runs argument: per run, its codes' nprocs
    call,                 \* the create_group_directory call in progress
    outcome,              \* how the last create_group_directory call ended
    \* ---- status.py: the campaign directory and the status printer
    campaign,             \* per group directory: its well-known files
    printed,              \* NotRun, or the result of print_campaign_status
    \* ---- status.py: get_workflow_status applied to one document
    status_doc,           \* the parsed codar.workflow.status.json
    wf_result             \* NotRun, or what get_workflow_status returned

launcher_vars == <<scheduler_supported, output_directory, group_env, fobs,
                   run_dirs, runs, call, outcome>>
fs_vars == <<output_directory, group_env, fobs, run_dirs>>
status_vars == <<campaign, printed>>
workflow_vars == <<status_doc, wf_result>>
vars == <<launcher_vars, status_vars, workflow_vars>>

NoFile == "NoFile"
NotRun == "NotRun"

\* The content of codar.workflow.status.json: text json.load rejects, or a
\* JSON object run name -> record.
Malformed == [kind |-> "malformed"]
JsonDoc(data) == [kind |-> "json", data |-> data]

(***************************************************************************)
(* Bounds of the model.                                                    *)
(***************************************************************************)
MaxRuns == 2          \* runs handed to one create_group_directory call
MaxCodes == 2         \* code invocations of one run
MaxStatusRuns == 2    \* runs of a status document given to get_workflow_status
MaxFiles == 4         \* job-id, status and walltime files in the campaign tree
NprocsChoices == {1, 3}
PpnChoices == {1, 2}

(***************************************************************************)
(* launchers.py                                                            *)
(***************************************************************************)
SOS_CMD_PORT == 22500

\* The code lists a run may have: 1..MaxCodes invocations, each with nprocs.
CodeLists == UNION {[1..n -> NprocsChoices] : n \in 1..MaxCodes}

\* cname of the j-th invocation of a run (names are distinct within a run).
CodeName(j) == <<"code", j>>

\* TAU_PROFILE_PATTERN.format(code=cname) under run.run_path
TauProfileDir(i, cname) == <<"run", i, "codar.cheetah.tau", cname>>

\* integer division instead of the ceiling
CeilFloor(nprocs, ppn) == nprocs \div ppn

\* math.ceil(nprocs / ppn), as Python computes it for positive integers
Ceil(nprocs, ppn) ==
    IF nprocs % ppn = 0 THEN nprocs \div ppn ELSE (nprocs \div ppn) + 1

\* Launcher.add_sos_env: the variables added to env (machine is not titan)
add_sos_env(env, run_path, ppn, node_index) ==
    [k \in DOMAIN env \cup {"SOS_CMD_PORT", "SOS_EVPATH_MEETUP", "TAU_SOS",
                            "SOS_APP_RANKS_PER_NODE",
                            "SOS_LISTENER_RANK_OFFSET"} |->
        CASE k = "SOS_CMD_PORT" -> SOS_CMD_PORT
          [] k = "SOS_EVPATH_MEETUP" -> run_path
          [] k = "TAU_SOS" -> 1
          [] k = "SOS_APP_RANKS_PER_NODE" -> ppn
          [] k = "SOS_LISTENER_RANK_OFFSET" -> node_index
          [] OTHER -> env[k]]

\* The index the loop carries to the next invocation (lines 145-152).
NextSosNodeIndex(sos, sos_node_index, nprocs, ppn) ==
    IF sos THEN sos_node_index + Ceil(nprocs, ppn) ELSE sos_node_index

\* The body of the loop over codes_argv_nprocs for invocation j: the data
\* record appended to fob_runs.
FobRunData(i, j, nprocs, sos, ppn, sos_node_index) ==
    LET env0 == [k \in {"PROFILEDIR"} |-> TauProfileDir(i, CodeName(j))]
        env == IF sos THEN add_sos_env(env0, <<"run", i>>, ppn, sos_node_index)
               ELSE env0
    IN  [name |-> CodeName(j), nprocs |-> nprocs, env |-> env]

\* The loop over codes_argv_nprocs, from invocation j on, with the loop's
\* running sos_node_index and the fob_runs list built so far.
RECURSIVE FobRunsFrom(_, _, _, _, _, _, _)
FobRunsFrom(i, codes, j, sos, ppn, sos_node_index, fob_runs) ==
    IF j > Len(codes) THEN fob_runs
    ELSE FobRunsFrom(i, codes, j + 1, sos, ppn,
            NextSosNodeIndex(sos, sos_node_index, codes[j], ppn),
            Append(fob_runs,
                   FobRunData(i, j, codes[j], sos, ppn, sos_node_index)))

\* fob = dict(id=run.run_id, runs=fob_runs, working_dir=run.run_path, ...)
Fob(i, codes, sos, ppn) ==
    [id |-> i,
     runs |-> FobRunsFrom(i, codes, 1, sos, ppn, 0, <<>>),
     working_dir |-> <<"run", i>>]

\* json.dumps(fob): one line of text holding the descriptor
JsonDumps(fob) == <<"json", fob>>

\* The lines of a file (a file that does not exist has none).
Lines(f) == IF f = NoFile THEN <<>> ELSE f

NoDir == [exists |-> FALSE, staged |-> FALSE, transformed |-> FALSE,
          params |-> FALSE, tau |-> {}, fob |-> NoFile]

Idle == [pc |-> "idle", i |-> 0, sos |-> FALSE, ppn |-> 1]

InitLauncher ==
    /\ scheduler_supported \in BOOLEAN
    /\ output_directory \in BOOLEAN
    /\ group_env = FALSE
    /\ fobs = NoFile
    /\ \E n \in 1..MaxRuns : runs \in [1..n -> CodeLists]
    /\ run_dirs = [i \in DOMAIN runs |-> NoDir]
    /\ call = Idle
    /\ outcome = "none"
    /\ campaign = <<>>
    /\ printed = [ran |-> FALSE]
    /\ status_doc = Malformed
    /\ wf_result = [raised |-> NotRun]

\* copytree that accepts an existing destination (dirs_exist_ok)
StartResultExistOk(supported, outdir_exists) ==
    IF ~supported THEN "ValueError" ELSE "ok"

\* no check of the template directory before the copy
StartResultNoCheck(supported, outdir_exists) ==
    IF outdir_exists THEN "FileExistsError" ELSE "ok"

\* Lines 68-75: the scheduler's template directory is checked first, then
\* shutil.copytree(script_dir, self.output_directory) refuses an existing
\* destination.
StartResult(supported, outdir_exists) ==
    IF ~supported THEN "ValueError"
    ELSE IF outdir_exists THEN "FileExistsError"
    ELSE "ok"

\* adiosXMLTransform: tree.find gives None when the group/variable is not in
\* the XML file, and tag.set then raises before tree.write.
adiosXMLTransform(target_found) ==
    IF target_found THEN "ok" ELSE "AttributeError"

\* the file is dropped instead of closed
CloseFobsDiscarding(written) == <<>>

\* Leaving the "with open(fobs_path, 'w') as f" block, by return or by an
\* exception: the file is closed and holds every line written to f.
CloseFobs(written) == written

\* create_group_directory, lines 68-95: check the scheduler, copy the script
\* tree, write group-env.sh and open fobs.json for writing.
CreateGroupDirectory(sos, ppn) ==
    /\ call.pc = "idle"
    /\ LET res == StartResult(scheduler_supported, output_directory) IN
        IF res = "ok"
        THEN /\ output_directory' = TRUE
             /\ group_env' = TRUE
             /\ fobs' = <<>>
             /\ IF Len(runs) = 0
                THEN /\ call' = [pc |-> "idle", i |-> 0, sos |-> sos, ppn |-> ppn]
                     /\ outcome' = "returned"
                ELSE /\ call' = [pc |-> "stage", i |-> 1, sos |-> sos, ppn |-> ppn]
                     /\ outcome' = "none"
             /\ UNCHANGED <<scheduler_supported, run_dirs, runs>>
        ELSE /\ outcome' = res
             /\ UNCHANGED <<scheduler_supported, output_directory, group_env,
                            fobs, run_dirs, runs, call>>
    /\ UNCHANGED <<status_vars, workflow_vars>>

\* An exception leaves the loop and the with block: the call is over.
Raise(exc) ==
    /\ call' = [call EXCEPT !.pc = "idle"]
    /\ outcome' = exc
    /\ fobs' = CloseFobs(fobs)

\* Lines 98-114 for run i: make the run directory, stage the inputs, apply
\* the ADIOS XML transforms.  inputs_ok: every input_rpath can be copied;
\* target_found: the transform's variable is in the staged XML file.
StageRun(inputs_ok, target_found) ==
    /\ call.pc = "stage"
    /\ LET i == call.i
           made == [run_dirs EXCEPT ![i].exists = TRUE]
           staged == [made EXCEPT ![i].staged = TRUE]
       IN  IF ~inputs_ok
           THEN /\ run_dirs' = made
                /\ Raise("FileNotFoundError")
           ELSE IF adiosXMLTransform(target_found) # "ok"
           THEN /\ run_dirs' = staged
                /\ Raise(adiosXMLTransform(target_found))
           ELSE /\ run_dirs' = [staged EXCEPT ![i].transformed = TRUE]
                /\ call' = [call EXCEPT !.pc = "params"]
                /\ UNCHANGED <<fobs, outcome>>
    /\ UNCHANGED <<scheduler_supported, output_directory, group_env, runs>>
    /\ UNCHANGED <<status_vars, workflow_vars>>

\* Lines 116-131: write run-params.txt and run-params.json.
WriteParams ==
    /\ call.pc = "params"
    /\ run_dirs' = [run_dirs EXCEPT ![call.i].params = TRUE]
    /\ call' = [call EXCEPT !.pc = "fob_runs"]
    /\ UNCHANGED <<scheduler_supported, output_directory, group_env, fobs,
                   runs, outcome>>
    /\ UNCHANGED <<status_vars, workflow_vars>>

\* Lines 133-162: per invocation, os.makedirs(tau_profile_dir) (no exist_ok)
\* and the data record.  makedirs raises at the first directory that exists.
BuildFobRuns ==
    /\ call.pc = "fob_runs"
    /\ LET i == call.i
           names == {CodeName(j) : j \in 1..Len(runs[i])}
           clash == {j \in 1..Len(runs[i]) : CodeName(j) \in run_dirs[i].tau}
       IN  IF clash # {}
           THEN LET first == CHOOSE j \in clash : \A k \in clash : j <= k IN
                /\ run_dirs' = [run_dirs EXCEPT ![i].tau =
                                  @ \cup {CodeName(j) : j \in 1..(first - 1)}]
                /\ Raise("FileExistsError")
           ELSE /\ run_dirs' = [run_dirs EXCEPT ![i].tau = @ \cup names]
                /\ call' = [call EXCEPT !.pc = "run_fob"]
                /\ UNCHANGED <<fobs, outcome>>
    /\ UNCHANGED <<scheduler_supported, output_directory, group_env, runs>>
    /\ UNCHANGED <<status_vars, workflow_vars>>

\* the descriptor of the first run, whatever the run the loop is at
FobSFirstRun(i) == JsonDumps(Fob(1, runs[1], call.sos, call.ppn))

\* fob_s of the run the loop is at (line 174).
FobS(i) == JsonDumps(Fob(i, runs[i], call.sos, call.ppn))

\* Lines 164-179: write fob_s and a newline to the run's own
\* codar.cheetah.fob.json.
WriteRunFob ==
    /\ call.pc = "run_fob"
    /\ run_dirs' = [run_dirs EXCEPT ![call.i].fob = <<FobS(call.i)>>]
    /\ call' = [call EXCEPT !.pc = "append"]
    /\ UNCHANGED <<scheduler_supported, output_directory, group_env, fobs,
                   runs, outcome>>
    /\ UNCHANGED <<status_vars, workflow_vars>>

\* Lines 181-183: append fob_s and a newline to fobs.json; then the next
\* run, or the end of the loop and of the call.
AppendFob ==
    /\ call.pc = "append"
    /\ IF call.i < Len(runs)
       THEN /\ fobs' = Append(fobs, FobS(call.i))
            /\ call' = [call EXCEPT !.pc = "stage", !.i = @ + 1]
            /\ UNCHANGED outcome
       ELSE /\ fobs' = CloseFobs(Append(fobs, FobS(call.i)))
            /\ call' = [call EXCEPT !.pc = "idle"]
            /\ outcome' = "returned"
    /\ UNCHANGED <<scheduler_supported, output_directory, group_env,
                   run_dirs, runs>>
    /\ UNCHANGED <<status_vars, workflow_vars>>

NextLauncher ==
    \/ \E sos \in BOOLEAN, ppn \in PpnChoices : CreateGroupDirectory(sos, ppn)
    \/ \E inputs_ok \in BOOLEAN, target_found \in BOOLEAN :
          StageRun(inputs_ok, target_found)
    \/ WriteParams
    \/ BuildFobRuns
    \/ WriteRunFob
    \/ AppendFob

SpecLauncher == InitLauncher /\ [][NextLauncher]_vars

\* A run directory that exists and is empty when the call starts.
EmptyDir == [NoDir EXCEPT !.exists = TRUE]

\* The directory of run i as a completed earlier materialization of the same
\* run (lines 98-179, called with sos and ppn) leaves it.
LeftDir(i, codes, sos, ppn) ==
    [exists |-> TRUE, staged |-> TRUE, transformed |-> TRUE, params |-> TRUE,
     tau |-> {CodeName(j) : j \in 1..Len(codes)},
     fob |-> <<JsonDumps(Fob(i, codes, sos, ppn))>>]

\* create_group_directory on a new output directory, with run.run_path of
\* each run absent, present and empty, or left by an earlier
\* materialization of that run.
InitExistingRunDirs ==
    /\ scheduler_supported = TRUE
    /\ output_directory = FALSE
    /\ group_env = FALSE
    /\ fobs = NoFile
    /\ \E n \in 1..MaxRuns : runs \in [1..n -> CodeLists]
    /\ \E sos \in BOOLEAN, ppn \in PpnChoices :
       \E empty, left \in SUBSET DOMAIN runs :
          /\ empty \cap left = {}
          /\ run_dirs = [i \in DOMAIN runs |->
                           IF i \in left THEN LeftDir(i, runs[i], sos, ppn)
                           ELSE IF i \in empty THEN EmptyDir
                           ELSE NoDir]
    /\ call = Idle
    /\ outcome = "none"
    /\ campaign = <<>>
    /\ printed = [ran |-> FALSE]
    /\ status_doc = Malformed
    /\ wf_result = [raised |-> NotRun]

SpecExistingRunDirs == InitExistingRunDirs /\ [][NextLauncher]_vars

(***************************************************************************)
(* status.py: get_workflow_status                                          *)
(***************************************************************************)
\* Run names of a status document, in sorted order.
RunName(n) == <<"run", n>>

States == {"not_started", "running", "done", "killed"}
ReasonChoices == {"", "succeeded", "timeout"}

\* The return_codes mappings of the model: component name -> return code.
RcChoices ==
    {<<>>,
     [c \in {"c1"} |-> 0],
     [c \in {"c1", "c2"} |-> 1],
     [c \in {"c1", "c2"} |-> IF c = "c1" THEN 0 ELSE 1]}

\* One status record: "state" always, "reason" and "return_codes" optional.
StatusRecord(state, has_reason, reason, has_rc, rc) ==
    [k \in {"state"} \cup (IF has_reason THEN {"reason"} ELSE {})
                     \cup (IF has_rc THEN {"return_codes"} ELSE {}) |->
        CASE k = "state" -> state
          [] k = "reason" -> reason
          [] OTHER -> rc]

StatusRecords ==
    {StatusRecord(s, TRUE, r, TRUE, c) :
        s \in States, r \in ReasonChoices, c \in RcChoices}
    \cup {StatusRecord(s, TRUE, r, FALSE, <<>>) : s \in States, r \in ReasonChoices}
    \cup {StatusRecord(s, FALSE, "", TRUE, c) : s \in States, c \in RcChoices}
    \cup {StatusRecord(s, FALSE, "", FALSE, <<>>) : s \in States}

StatusDocs(records, max_runs) ==
    {JsonDoc(d) :
        d \in UNION {[{RunName(k) : k \in 1..n} -> records] : n \in 0..max_runs}}

\* dict.get(key): None when the key is missing
HasKey(st, key) == key \in DOMAIN st

\* "if reason:" - the key is present and its string is not empty
ReasonTruthy(st) == HasKey(st, "reason") /\ st["reason"] # ""

\* "if return_codes:" - the key is present and the mapping is not empty
ReturnCodesTruthy(st) ==
    HasKey(st, "return_codes") /\ DOMAIN st["return_codes"] # {}

\* defaultdict(int): x[k] += 1, and x[k] read
Incr(counts, k) == counts (+) SetToBag({k})
Count(counts, k) == CopiesIn(k, counts)

\* Lines 176-178: for rc in return_codes.values(): rc_counts[rc] += 1
RECURSIVE CountReturnCodes(_, _, _)
CountReturnCodes(return_codes, todo, acc) ==
    IF todo = {} THEN acc
    ELSE LET c == CHOOSE x \in todo : TRUE IN
         CountReturnCodes(return_codes, todo \ {c},
            [acc EXCEPT !.total_rc = @ + 1,
                        !.rc_counts = Incr(@, return_codes[c])])

\* return codes counted only for records that have a reason
CountRecordNested(st, acc) ==
    LET a1 == [acc EXCEPT !.state_counts[st["state"]] = @ + 1] IN
    IF ReasonTruthy(st)
    THEN LET a2 == [a1 EXCEPT !.reason_counts = Incr(@, st["reason"]),
                              !.total_reasons = @ + 1]
         IN  IF ReturnCodesTruthy(st)
             THEN CountReturnCodes(st["return_codes"],
                                   DOMAIN st["return_codes"], a2)
             ELSE a2
    ELSE a1

\* Lines 169-178: the loop body for one record st
CountRecord(st, acc) ==
    LET a1 == [acc EXCEPT !.state_counts[st["state"]] = @ + 1]
        a2 == IF ReasonTruthy(st)
              THEN [a1 EXCEPT !.reason_counts = Incr(@, st["reason"]),
                              !.total_reasons = @ + 1]
              ELSE a1
    IN  IF ReturnCodesTruthy(st)
        THEN CountReturnCodes(st["return_codes"],
                              DOMAIN st["return_codes"], a2)
        ELSE a2

\* Lines 168-178: for st in status_data.values()
RECURSIVE CountRecords(_, _, _)
CountRecords(status_data, todo, acc) ==
    IF todo = {} THEN acc
    ELSE LET r == CHOOSE x \in todo : TRUE IN
         CountRecords(status_data, todo \ {r},
                      CountRecord(status_data[r], acc))

\* Lines 161-166: the counters before the loop
ZeroCounts ==
    [total_rc |-> 0, rc_counts |-> EmptyBag,
     state_counts |-> [s \in States |-> 0],
     total_reasons |-> 0, reason_counts |-> EmptyBag]

\* get_workflow_status(status_file_path) with the printing switched off:
\* json.load raises on text that is not JSON; otherwise the four results.
get_workflow_status(file) ==
    IF file.kind = "absent" THEN [raised |-> "FileNotFoundError"]
    ELSE IF file.kind = "malformed" THEN [raised |-> "JSONDecodeError"]
    ELSE LET acc == CountRecords(file.data, DOMAIN file.data, ZeroCounts) IN
         [raised |-> "none",
          status_data |-> file.data,
          state_counts |-> acc.state_counts,
          reason_counts |-> acc.reason_counts,
          rc_counts |-> acc.rc_counts]

InitWorkflow ==
    /\ status_doc \in StatusDocs(StatusRecords, MaxStatusRuns) \cup {Malformed}
    /\ wf_result = [raised |-> NotRun]
    /\ scheduler_supported = FALSE
    /\ output_directory = FALSE
    /\ group_env = FALSE
    /\ fobs = NoFile
    /\ runs = <<>>
    /\ run_dirs = <<>>
    /\ call = Idle
    /\ outcome = "none"
    /\ campaign = <<>>
    /\ printed = [ran |-> FALSE]

GetWorkflowStatus ==
    /\ wf_result.raised = NotRun
    /\ wf_result' = get_workflow_status(status_doc)
    /\ UNCHANGED <<status_doc, launcher_vars, status_vars>>

NextWorkflow == GetWorkflowStatus

SpecWorkflow == InitWorkflow /\ [][NextWorkflow]_vars

(***************************************************************************)
(* status.py: get_workflow_status with print_return_codes                  *)
(***************************************************************************)
\* The order of sorted() on run names: "run-1" < "run-2" < ...
RunLess(a, b) == a[2] < b[2]

\* The order of sorted() on the component names of the model.
CodeRank(c) == IF c = "c1" THEN 1 ELSE 2
CodeLess(a, b) == CodeRank(a) < CodeRank(b)

\* sorted(status_data.keys()): the least name first, then the rest
RECURSIVE SortedRuns(_)
SortedRuns(names) ==
    IF names = {} THEN <<>>
    ELSE LET least == CHOOSE a \in names :
                        \A b \in names \ {a} : RunLess(a, b)
         IN  <<least>> \o SortedRuns(names \ {least})

\* the component names in descending order
RECURSIVE SortedCodesReversed(_)
SortedCodesReversed(names) ==
    IF names = {} THEN <<>>
    ELSE LET most == CHOOSE a \in names :
                       \A b \in names \ {a} : CodeLess(b, a)
         IN  <<most>> \o SortedCodesReversed(names \ {most})

\* sorted(rc.keys())
RECURSIVE SortedCodes(_)
SortedCodes(names) ==
    IF names = {} THEN <<>>
    ELSE LET least == CHOOSE a \in names :
                        \A b \in names \ {a} : CodeLess(a, b)
         IN  <<least>> \o SortedCodes(names \ {least})

\* Lines 205-207: one printed line per component, prefix * 2 before it
RECURSIVE CodeLines(_, _, _)
CodeLines(rc, code_names, indent) ==
    IF code_names = <<>> THEN <<>>
    ELSE <<<<2 * indent, Head(code_names), ":", rc[Head(code_names)]>>>>
         \o CodeLines(rc, Tail(code_names), indent)

\* every run is listed, whatever filter_run
FilterRunSkipsNothing(filter_run, run_name) == FALSE

\* Line 198: "if filter_run and run_name not in filter_run: continue"
FilterRunSkips(filter_run, run_name) ==
    filter_run # {} /\ run_name \notin filter_run

\* run_data.get('return_codes', {})
GetReturnCodes(run_data) ==
    IF HasKey(run_data, "return_codes") THEN run_data["return_codes"]
    ELSE <<>>

\* Lines 197-207: the loop over the sorted run names
RECURSIVE RunLines(_, _, _, _)
RunLines(status_data, run_names, filter_run, indent) ==
    IF run_names = <<>> THEN <<>>
    ELSE LET run_name == Head(run_names)
             rest == RunLines(status_data, Tail(run_names), filter_run, indent)
             rc == GetReturnCodes(status_data[run_name])
         IN  IF FilterRunSkips(filter_run, run_name) THEN rest
             ELSE IF DOMAIN rc = {} THEN rest
             ELSE <<<<indent, run_name>>>>
                  \o CodeLines(rc, SortedCodes(DOMAIN rc), indent)
                  \o rest

\* Lines 196-208: what print_return_codes prints, the closing print() last
ReturnCodeListing(status_data, filter_run, indent) ==
    RunLines(status_data, SortedRuns(DOMAIN status_data), filter_run, indent)
    \o <<<<>>>>

\* The records and documents the listing is run on.
ListingRecords ==
    {StatusRecord(s, FALSE, "", TRUE, c) : s \in {"done", "killed"}, c \in RcChoices}
    \cup {StatusRecord(s, FALSE, "", FALSE, <<>>) : s \in {"done", "killed"}}

InitListing ==
    /\ status_doc \in StatusDocs(ListingRecords, MaxStatusRuns) \cup {Malformed}
    /\ wf_result = [raised |-> NotRun]
    /\ scheduler_supported = FALSE
    /\ output_directory = FALSE
    /\ group_env = FALSE
    /\ fobs = NoFile
    /\ runs = <<>>
    /\ run_dirs = <<>>
    /\ call = Idle
    /\ outcome = "none"
    /\ campaign = <<>>
    /\ printed = [ran |-> FALSE]

\* get_workflow_status(status_file_path, print_return_codes=True, indent=2,
\* filter_run=filter_run), as print_campaign_status calls it (lines 65-68):
\* what it returns and what it prints.
GetWorkflowStatusReturnCodes(filter_run) ==
    /\ wf_result.raised = NotRun
    /\ LET res == get_workflow_status(status_doc) IN
       wf_result' =
         IF res.raised # "none" THEN res
         ELSE [raised |-> "none",
               filter_run |-> filter_run,
               status_data |-> res.status_data,
               state_counts |-> res.state_counts,
               reason_counts |-> res.reason_counts,
               rc_counts |-> res.rc_counts,
               stdout |-> ReturnCodeListing(res.status_data, filter_run, 2)]
    /\ UNCHANGED <<status_doc, launcher_vars, status_vars>>

NextListing ==
    \E filter_run \in {{}, {RunName(1)}, {RunName(2)}} :
        GetWorkflowStatusReturnCodes(filter_run)

SpecListing == InitListing /\ [][NextListing]_vars

(***************************************************************************)
(* status.py: print_campaign_status                                        *)
(***************************************************************************)
\* get_immediate_subdirs(campaign_directory), and of each user directory,
\* in the order the loops visit them.
UserDirs == <<"u1", "u2">>
GroupDirs(user) == IF user = "u1" THEN <<"g1", "g2">> ELSE <<"g1">>
AllGroups == {<<u, g>> : u \in {"u1", "u2"}, g \in {"g1", "g2"}} \ {<<"u2", "g2">>}

Absent == [kind |-> "absent"]
Text(t) == [kind |-> "text", text |-> t]

\* What codar.cheetah.jobid.txt holds once the submit script wrote it:
\* KIND:ID, here as the tokens of its text.
JobIdTexts == {<<"PID", ":", "4242", "\n">>, <<"PBS", ":", "17", ".", "sdb", "\n">>}

\* The status records and documents the groups of the campaign hold.
CampaignRecords ==
    {StatusRecord("not_started", FALSE, "", FALSE, <<>>),
     StatusRecord("running", FALSE, "", FALSE, <<>>),
     StatusRecord("done", TRUE, "succeeded", FALSE, <<>>),
     StatusRecord("done", TRUE, "timeout", FALSE, <<>>)}

\* 3 runs, all done and succeeded
ScenarioB ==
    JsonDoc([n \in {RunName(1), RunName(2), RunName(3)} |->
                StatusRecord("done", TRUE, "succeeded", FALSE, <<>>)])

\* as ScenarioB, but one run timed out
ScenarioC ==
    JsonDoc([n \in {RunName(1), RunName(2), RunName(3)} |->
                IF n = RunName(2)
                THEN StatusRecord("done", TRUE, "timeout", FALSE, <<>>)
                ELSE StatusRecord("done", TRUE, "succeeded", FALSE, <<>>)])

\* 5 runs, 2 of them running
ScenarioD ==
    JsonDoc([n \in {RunName(k) : k \in 1..5} |->
                IF n \in {RunName(2), RunName(4)}
                THEN StatusRecord("running", FALSE, "", FALSE, <<>>)
                ELSE StatusRecord("done", TRUE, "succeeded", FALSE, <<>>)])

CampaignDocs ==
    {JsonDoc(d) :
        d \in UNION {[D -> CampaignRecords] : D \in {{}, {RunName(1)}}}}
    \cup {ScenarioB, ScenarioC, ScenarioD, Malformed}

\* str.strip(): leading and trailing whitespace removed
RECURSIVE Strip(_)
Strip(t) ==
    IF t = <<>> THEN t
    ELSE IF Head(t) \in {"\n", " "} THEN Strip(Tail(t))
    ELSE IF t[Len(t)] \in {"\n", " "} THEN Strip(SubSeq(t, 1, Len(t) - 1))
    ELSE t

\* str.split(':'): the fields between the colons
RECURSIVE Split(_, _, _)
Split(t, field, fields) ==
    IF t = <<>> THEN Append(fields, field)
    ELSE IF Head(t) = ":" THEN Split(Tail(t), <<>>, Append(fields, field))
    ELSE Split(Tail(t), Append(field, Head(t)), fields)

\* Lines 37-39: jobid = f.read().strip(); jobid = jobid.split(':')[1]
ReadJobId(text) ==
    LET fields == Split(Strip(text), <<>>, <<>>) IN
    IF Len(fields) < 2 THEN [raised |-> "IndexError"]
    ELSE [raised |-> "none", jobid |-> fields[2]]

\* user_group = user + '/' + group
UserGroup(user, group) == <<user, "/", group>>

\* the job-id file counts as missing only when nothing else is there
JobIdMissingNoStatus(dir) ==
    dir.jobid.kind = "absent" /\ dir.status.kind = "absent"

\* Line 33: not os.path.exists(jobid_file_path)
JobIdMissing(dir) == dir.jobid.kind = "absent"

\* a walltime file alone makes the group count as started
StatusOrWalltimePresent(dir) == dir.status.kind # "absent" \/ dir.walltime

\* Line 46: os.path.exists(status_file_path)
StatusPresent(dir) == dir.status.kind # "absent"

\* Line 50: os.path.exists(walltime_file_path)
WalltimePresent(dir) == dir.walltime

\* every run that has a reason counts as ok
OkCountAnyReason(reason_counts) == BagCardinality(reason_counts)

\* Line 51: ok = reason_counts['succeeded']
OkCount(reason_counts) == Count(reason_counts, "succeeded")

\* runs not yet started are left out
InProgressCountRunning(state_counts) == state_counts["running"]

\* Lines 58-59: in_progress = running + not_started
InProgressCount(state_counts) ==
    state_counts["running"] + state_counts["not_started"]

\* Lines 29-74, the body of the loop for one group directory: the
\* arguments of the one print call, or the exception that leaves the loop.
GroupReport(user, group, dir) ==
    LET user_group == UserGroup(user, group) IN
    IF JobIdMissing(dir)
    THEN [raised |-> "none", line |-> <<user_group, ":", "NOT SUBMITTED">>]
    ELSE
    LET id == IF dir.jobid.kind = "absent"
              THEN [raised |-> "FileNotFoundError"]
              ELSE ReadJobId(dir.jobid.text) IN
    IF id.raised # "none" THEN [raised |-> id.raised]
    ELSE IF ~StatusPresent(dir)
    THEN [raised |-> "none", line |-> <<user_group, ":", "NOT STARTED">>]
    ELSE
    LET st == get_workflow_status(dir.status) IN
    IF st.raised # "none" THEN [raised |-> st.raised]
    ELSE
    LET total == Cardinality(DOMAIN st.status_data) IN
    IF WalltimePresent(dir)
    THEN LET ok == OkCount(st.reason_counts) IN
         IF ok < total
         THEN [raised |-> "none",
               line |-> <<user_group, ":", "DONE,", total - ok, "/", total,
                          "failed">>]
         ELSE [raised |-> "none", line |-> <<user_group, ":", "DONE">>]
    ELSE LET in_progress == InProgressCount(st.state_counts) IN
         [raised |-> "none",
          line |-> <<user_group, ":", "IN PROGRESS,", "job", id.jobid, ",",
                     total - in_progress, "/", total>>]

\* "if filter and name not in filter: continue"
FilteredOut(filter, name) == filter # {} /\ name \notin filter

\* Lines 26-74: the loop over the group directories of one user, from the
\* k-th on; out is what was printed so far.
RECURSIVE ScanGroups(_, _, _, _, _)
ScanGroups(tree, user, k, filter_group, out) ==
    IF k > Len(GroupDirs(user)) THEN [raised |-> "none", lines |-> out]
    ELSE LET group == GroupDirs(user)[k] IN
         IF FilteredOut(filter_group, group)
         THEN ScanGroups(tree, user, k + 1, filter_group, out)
         ELSE LET r == GroupReport(user, group, tree[<<user, group>>]) IN
              IF r.raised # "none"
              THEN [raised |-> r.raised, lines |-> out,
                    at |-> <<user, group>>]
              ELSE ScanGroups(tree, user, k + 1, filter_group,
                              Append(out, r.line))

\* Lines 21-25: the loop over the user directories, from the u-th on.
RECURSIVE ScanUsers(_, _, _, _, _)
ScanUsers(tree, u, filter_user, filter_group, out) ==
    IF u > Len(UserDirs) THEN [raised |-> "none", lines |-> out]
    ELSE IF FilteredOut(filter_user, UserDirs[u])
    THEN ScanUsers(tree, u + 1, filter_user, filter_group, out)
    ELSE LET r == ScanGroups(tree, UserDirs[u], 1, filter_group, out) IN
         IF r.raised # "none" THEN r
         ELSE ScanUsers(tree, u + 1, filter_user, filter_group, r.lines)

\* The well-known files present in the campaign tree.
NumFiles(tree) ==
    Cardinality({g \in AllGroups : tree[g].jobid.kind # "absent"})
    + Cardinality({g \in AllGroups : tree[g].status.kind # "absent"})
    + Cardinality({g \in AllGroups : tree[g].walltime})

InitCampaign ==
    /\ campaign = [g \in AllGroups |->
                     [jobid |-> Absent, status |-> Absent, walltime |-> FALSE]]
    /\ printed = [ran |-> FALSE]
    /\ status_doc = Malformed
    /\ wf_result = [raised |-> NotRun]
    /\ scheduler_supported = FALSE
    /\ output_directory = FALSE
    /\ group_env = FALSE
    /\ fobs = NoFile
    /\ runs = <<>>
    /\ run_dirs = <<>>
    /\ call = Idle
    /\ outcome = "none"

\* The submit script of a group writes its job-id file.
WriteJobId(g, text) ==
    /\ ~printed.ran
    /\ campaign[g].jobid.kind = "absent"
    /\ NumFiles(campaign) < MaxFiles
    /\ campaign' = [campaign EXCEPT ![g].jobid = Text(text)]
    /\ UNCHANGED <<printed, launcher_vars, workflow_vars>>

\* The workflow executor writes the group's status document.
WriteStatus(g, doc) ==
    /\ ~printed.ran
    /\ campaign[g].status.kind = "absent"
    /\ NumFiles(campaign) < MaxFiles
    /\ campaign' = [campaign EXCEPT ![g].status = doc]
    /\ UNCHANGED <<printed, launcher_vars, workflow_vars>>

\* The batch script of a group writes its walltime file.
WriteWalltime(g) ==
    /\ ~printed.ran
    /\ ~campaign[g].walltime
    /\ NumFiles(campaign) < MaxFiles
    /\ campaign' = [campaign EXCEPT ![g].walltime = TRUE]
    /\ UNCHANGED <<printed, launcher_vars, workflow_vars>>

\* print_campaign_status(campaign_directory, filter_user, filter_group),
\* the other switches left at their defaults.
PrintCampaignStatus(filter_user, filter_group) ==
    /\ ~printed.ran
    /\ printed' = [ran |-> TRUE,
                   filter_user |-> filter_user,
                   filter_group |-> filter_group,
                   result |-> ScanUsers(campaign, 1, filter_user,
                                        filter_group, <<>>)]
    /\ UNCHANGED <<campaign, launcher_vars, workflow_vars>>

NextCampaign ==
    \/ \E g \in AllGroups, text \in JobIdTexts : WriteJobId(g, text)
    \/ \E g \in AllGroups, doc \in CampaignDocs : WriteStatus(g, doc)
    \/ \E g \in AllGroups : WriteWalltime(g)
    \/ \E filter_user \in {{}, {"u2"}}, filter_group \in {{}, {"g2"}} :
          PrintCampaignStatus(filter_user, filter_group)

SpecCampaign == InitCampaign /\ [][NextCampaign]_vars

(***************************************************************************)
(* Properties of print_campaign_status                                     *)
(***************************************************************************)
\* The group directories in the order the loops visit them.
TraversalOrder == <<<<"u1", "g1">>, <<"u1", "g2">>, <<"u2", "g1">>>>
Pos(g) == CHOOSE k \in DOMAIN TraversalOrder : TraversalOrder[k] = g

\* The group is not skipped by the user and group filters of the call.
PassesFilters(g) ==
    /\ (printed.filter_user = {} \/ g[1] \in printed.filter_user)
    /\ (printed.filter_group = {} \/ g[2] \in printed.filter_group)

\* Scanning the group is an error: its job-id file is there and its status
\* document cannot be parsed.
Unparseable(g) ==
    campaign[g].jobid.kind # "absent" /\ campaign[g].status.kind = "malformed"

\* The call got to the group: the group passes the filters and no group
\* visited before it ended the call.
Scanned(g) ==
    /\ printed.ran
    /\ PassesFilters(g)
    /\ \A h \in AllGroups :
          (Pos(h) < Pos(g) /\ PassesFilters(h)) => ~Unparseable(h)

\* What the call printed for the group.
ReportsOf(g) ==
    {k \in DOMAIN printed.result.lines :
        printed.result.lines[k][1] = <<g[1], "/", g[2]>>}

\* The call printed exactly this one line for the group and the group did
\* not end the call with an error.
ReportIs(g, words) ==
    /\ Cardinality(ReportsOf(g)) = 1
    /\ \A k \in ReportsOf(g) :
          printed.result.lines[k] = <<<<g[1], "/", g[2]>>, ":">> \o words
    /\ (printed.result.raised # "none" => printed.result.at # g)

\* The job id in the text of a job-id file: what follows "KIND:".
ExpectedJobId(text) ==
    SelectSeq(SubSeq(text, 3, Len(text)), LAMBDA c : c # "\n")

\* C2: a group the call scans whose directory has no job-id file is
\* reported as NOT SUBMITTED and nothing else, whether or not its status
\* document and walltime file exist, and scanning it raises no error.
C2_NoJobIdNotSubmitted ==
    \A g \in AllGroups :
        (Scanned(g) /\ campaign[g].jobid.kind = "absent") =>
            ReportIs(g, <<"NOT SUBMITTED">>)

\* No job-id file, but a status document and a walltime file.
C2_Witness ==
    \E g \in AllGroups :
        /\ Scanned(g)
        /\ campaign[g].jobid.kind = "absent"
        /\ campaign[g].status.kind = "json"
        /\ campaign[g].walltime
        /\ ReportsOf(g) # {}

\* C3: a group the call scans with a job-id file and no status document is
\* reported as NOT STARTED, with or without a walltime file, and scanning
\* it raises no error.
C3_NoStatusNotStarted ==
    \A g \in AllGroups :
        (/\ Scanned(g)
         /\ campaign[g].jobid.kind # "absent"
         /\ campaign[g].status.kind = "absent") =>
            ReportIs(g, <<"NOT STARTED">>)

C3_Witness ==
    \E g \in AllGroups :
        /\ Scanned(g)
        /\ campaign[g].jobid.kind # "absent"
        /\ campaign[g].status.kind = "absent"
        /\ campaign[g].walltime
        /\ ReportsOf(g) # {}

\* C4: a group the call scans with a job-id file, a parseable status
\* document and no walltime file is reported as IN PROGRESS with the job
\* id and (total - in_progress) / total, total the number of runs of the
\* document and in_progress those not_started or running.
C4_InProgressReport ==
    \A g \in AllGroups :
        (/\ Scanned(g)
         /\ campaign[g].jobid.kind # "absent"
         /\ campaign[g].status.kind = "json"
         /\ ~campaign[g].walltime) =>
            LET data == campaign[g].status.data
                total == Cardinality(DOMAIN data)
                in_progress == Cardinality({n \in DOMAIN data :
                    data[n]["state"] \in {"not_started", "running"}})
            IN  ReportIs(g, <<"IN PROGRESS,", "job",
                              ExpectedJobId(campaign[g].jobid.text), ",",
                              total - in_progress, "/", total>>)

\* 2 of 5 runs running, job 4242: IN PROGRESS, job 4242 , 3 / 5
C4_Witness ==
    \E g \in AllGroups :
        /\ Scanned(g)
        /\ campaign[g].status = ScenarioD
        /\ \E k \in ReportsOf(g) :
              printed.result.lines[k] =
                <<<<g[1], "/", g[2]>>, ":", "IN PROGRESS,", "job", <<"4242">>,
                  ",", 3, "/", 5>>

\* C5: a group the call scans with a job-id file, a parseable status
\* document and a walltime file is reported as DONE whatever the states of
\* its runs: with ok the runs whose reason is succeeded, "DONE, (total -
\* ok) / total failed" when ok < total and "DONE" alone when ok = total.
C5_DoneReport ==
    \A g \in AllGroups :
        (/\ Scanned(g)
         /\ campaign[g].jobid.kind # "absent"
         /\ campaign[g].status.kind = "json"
         /\ campaign[g].walltime) =>
            LET data == campaign[g].status.data
                total == Cardinality(DOMAIN data)
                ok == Cardinality({n \in DOMAIN data :
                        /\ "reason" \in DOMAIN data[n]
                        /\ data[n]["reason"] = "succeeded"})
            IN  IF ok < total
                THEN ReportIs(g, <<"DONE,", total - ok, "/", total, "failed">>)
                ELSE ReportIs(g, <<"DONE">>)

\* One of 3 runs timed out: DONE, 1 / 3 failed
C5_Witness ==
    \E g \in AllGroups :
        /\ Scanned(g)
        /\ campaign[g].status = ScenarioC
        /\ campaign[g].walltime
        /\ \E k \in ReportsOf(g) :
              printed.result.lines[k] =
                <<<<g[1], "/", g[2]>>, ":", "DONE,", 1, "/", 3, "failed">>

\* C9: when the call has ended, every group that passes the filters and
\* whose own scan is no error has been reported, also the groups after a
\* group whose status document cannot be parsed.
C9_ErrorSurfacesPerGroup ==
    printed.ran =>
        \A g \in AllGroups :
            (PassesFilters(g) /\ ~Unparseable(g)) => ReportsOf(g) # {}

(***************************************************************************)
(* Properties of get_workflow_status                                       *)
(***************************************************************************)
\* The (run, component) entries of a document whose return code is code.
RcEntries(data, code) ==
    {e \in (DOMAIN data) \X {"c1", "c2"} :
        /\ HasKey(data[e[1]], "return_codes")
        /\ e[2] \in DOMAIN data[e[1]]["return_codes"]
        /\ data[e[1]]["return_codes"][e[2]] = code}

\* The runs of a document whose record has the (non-empty) reason r.
RunsWithReason(data, r) ==
    {n \in DOMAIN data : HasKey(data[n], "reason") /\ data[n]["reason"] = r}

\* C10: for every parseable document get_workflow_status raises nothing and
\* returns the document itself, per state the number of records in that
\* state (summing to the number of runs), per reason the number of records
\* with that reason, and per return code the number of (run, component)
\* entries with it; records without reason or return_codes add nothing to
\* these, and for the empty document every count is zero.
C10_WorkflowStatusCounts ==
    (wf_result.raised # NotRun /\ status_doc.kind = "json") =>
        LET data == status_doc.data IN
        /\ wf_result.raised = "none"
        /\ wf_result.status_data = data
        /\ DOMAIN wf_result.state_counts = States
        /\ \A s \in States :
              wf_result.state_counts[s] =
                Cardinality({n \in DOMAIN data : data[n]["state"] = s})
        /\ wf_result.state_counts["not_started"]
              + wf_result.state_counts["running"]
              + wf_result.state_counts["done"]
              + wf_result.state_counts["killed"] = Cardinality(DOMAIN data)
        /\ \A r \in ReasonChoices \ {""} :
              Count(wf_result.reason_counts, r) =
                Cardinality(RunsWithReason(data, r))
        /\ BagToSet(wf_result.reason_counts) \subseteq ReasonChoices \ {""}
        /\ \A code \in {0, 1} :
              Count(wf_result.rc_counts, code) =
                Cardinality(RcEntries(data, code))
        /\ BagToSet(wf_result.rc_counts) \subseteq {0, 1}
        /\ (DOMAIN data = {} =>
              /\ wf_result.status_data = <<>>
              /\ wf_result.reason_counts = EmptyBag
              /\ wf_result.rc_counts = EmptyBag
              /\ \A s \in States : wf_result.state_counts[s] = 0)

\* Two runs: one with neither reason nor return_codes, one with two
\* components that both returned 1.
C10_Witness ==
    /\ wf_result.raised = "none"
    /\ DOMAIN status_doc.data = {RunName(1), RunName(2)}
    /\ DOMAIN status_doc.data[RunName(1)] = {"state"}
    /\ ~ReasonTruthy(status_doc.data[RunName(2)])
    /\ Count(wf_result.rc_counts, 1) = 2
    /\ wf_result.reason_counts = EmptyBag

(***************************************************************************)
(* Properties of the return-code listing                                   *)
(***************************************************************************)
\* The runs the listing has to show: those the filter lets through (no
\* filter lets every run through) that have a return code.
Listed(data, filter_run) ==
    {n \in DOMAIN data :
        /\ (filter_run = {} \/ n \in filter_run)
        /\ "return_codes" \in DOMAIN data[n]
        /\ DOMAIN data[n]["return_codes"] # {}}

\* C11: the listing is, for each run to show and for no other run, its
\* name followed by one line per component with that component's return
\* code; the runs come in ascending order of run id, the components of a
\* run in ascending order of name; with a filter naming one run only that
\* run is listed, and runs without return codes are left out.
C11_ReturnCodeListing ==
    (wf_result.raised = "none" /\ "stdout" \in DOMAIN wf_result) =>
        LET data == status_doc.data
            out == wf_result.stdout
            body == SubSeq(out, 1, Len(out) - 1)
            shown == Listed(data, wf_result.filter_run)
            Headers == {p \in DOMAIN body : Len(body[p]) = 2}
            NCodes(p) == Cardinality(DOMAIN data[body[p][2]]["return_codes"])
        IN  /\ Len(out) >= 1 /\ out[Len(out)] = <<>>
            /\ {body[p][2] : p \in Headers} = shown
            /\ \A p, q \in Headers : p < q => RunLess(body[p][2], body[q][2])
            /\ \A p \in Headers :
                  /\ body[p][1] = 2
                  /\ p + NCodes(p) <= Len(body)
                  /\ \A j \in 1..NCodes(p) :
                        LET l == body[p + j]
                            rc == data[body[p][2]]["return_codes"]
                        IN  /\ Len(l) = 4
                            /\ l[1] = 4 /\ l[3] = ":"
                            /\ l[2] \in DOMAIN rc
                            /\ l[4] = rc[l[2]]
                            /\ (j > 1 => CodeLess(body[p + j - 1][2], l[2]))
            /\ \A p \in DOMAIN body :
                  p \notin Headers =>
                    \E h \in Headers : h < p /\ p <= h + NCodes(h)

\* Two runs with return codes, the listing filtered to the second one,
\* which has two components.
C11_Witness ==
    /\ wf_result.raised = "none"
    /\ "stdout" \in DOMAIN wf_result
    /\ wf_result.filter_run = {RunName(2)}
    /\ Listed(status_doc.data, {}) = {RunName(1), RunName(2)}
    /\ wf_result.stdout =
         <<<<2, RunName(2)>>, <<4, "c1", ":", 0>>, <<4, "c2", ":", 1>>, <<>>>>

(***************************************************************************)
(* Properties of create_group_directory                                    *)
(***************************************************************************)
\* json.loads of a line written by JsonDumps
JsonLoads(line) == line[2]

\* Run i went through the whole loop body: every artifact of it is on disk.
Materialized(i) ==
    /\ run_dirs[i].exists /\ run_dirs[i].staged /\ run_dirs[i].transformed
    /\ run_dirs[i].params
    /\ run_dirs[i].tau = {CodeName(j) : j \in 1..Len(runs[i])}
    /\ run_dirs[i].fob # NoFile

IsPrefix(s, t) == Len(s) <= Len(t) /\ SubSeq(t, 1, Len(s)) = s

\* C1: whenever no call is running (also after a call that failed at run i
\* and after a further call on the same group), fobs.json has one line per
\* materialized run, no run has two lines, and no step removes or rewrites
\* a line already in the file.
C1_LinesEqualMaterializedRuns ==
    /\ [](call.pc = "idle" =>
            /\ Len(Lines(fobs)) =
                  Cardinality({i \in DOMAIN runs : Materialized(i)})
            /\ \A i \in DOMAIN runs :
                  Materialized(i) <=>
                    \E k \in DOMAIN Lines(fobs) : JsonLoads(fobs[k]).id = i
            /\ \A k1, k2 \in DOMAIN Lines(fobs) :
                  JsonLoads(fobs[k1]).id = JsonLoads(fobs[k2]).id => k1 = k2)
    /\ [][IsPrefix(Lines(fobs), Lines(fobs'))]_vars

\* A call failed at run 2, leaving one line, and a second call on the same
\* group has ended.
C1_Witness ==
    /\ call.pc = "idle"
    /\ outcome = "FileExistsError"
    /\ call.i = 2
    /\ Len(Lines(fobs)) = 1
    /\ Len(runs) = 2

\* The sum of ceil(nprocs_k / ppn) over the first n invocations of a run.
RECURSIVE SumCeil(_, _, _)
SumCeil(codes, n, ppn) ==
    IF n = 0 THEN 0
    ELSE SumCeil(codes, n - 1, ppn) + ((codes[n] + ppn - 1) \div ppn)

FailedAtRun ==
    /\ call.pc = "idle"
    /\ outcome \in {"FileNotFoundError", "AttributeError"}

\* C7: after materializing run i failed, fobs.json holds exactly the lines
\* of the runs before i, each equal to that run's own descriptor file, and
\* none for run i; and the failing step changes neither fobs.json nor the
\* directory of an earlier run.
C7_FailureKeepsEarlierRuns ==
    /\ [](FailedAtRun =>
            /\ Len(Lines(fobs)) = call.i - 1
            /\ \A k \in 1..(call.i - 1) :
                  /\ Materialized(k)
                  /\ run_dirs[k].fob = <<fobs[k]>>
                  /\ fobs[k] = JsonDumps(Fob(k, runs[k], call.sos, call.ppn))
            /\ run_dirs[call.i].fob = NoFile)
    /\ [][(call.pc # "idle" /\ FailedAtRun') =>
            /\ Lines(fobs') = Lines(fobs)
            /\ \A k \in 1..(call.i - 1) : run_dirs'[k] = run_dirs[k]]_vars

\* The transform of the second run did not find its target.
C7_Witness ==
    /\ FailedAtRun
    /\ outcome = "AttributeError"
    /\ call.i = 2
    /\ Len(Lines(fobs)) = 1

\* C8: with no template directory for the scheduler, a call ends with
\* ValueError and leaves the output directory, group-env.sh, fobs.json and
\* every run directory as they were.
C8_UnsupportedSchedulerWritesNothing ==
    [][(call.pc = "idle" /\ ~scheduler_supported) =>
            /\ outcome' = "ValueError"
            /\ UNCHANGED fs_vars]_vars

C8_Witness ==
    /\ ~scheduler_supported
    /\ outcome = "ValueError"
    /\ ~output_directory /\ ~group_env /\ fobs = NoFile

\* C13: after a call that returned, fobs.json has one line per run, line k
\* is the serialized descriptor of the k-th run and equals the content of
\* that run's own codar.cheetah.fob.json; and a step that appends line k
\* appends one line only and finds the k-th run's own file already written
\* with that line.
C13_AggregateMatchesRunFiles ==
    /\ []((call.pc = "idle" /\ outcome = "returned") =>
            /\ Len(Lines(fobs)) = Len(runs)
            /\ \A k \in DOMAIN runs :
                  /\ fobs[k] = JsonDumps(Fob(k, runs[k], call.sos, call.ppn))
                  /\ JsonLoads(fobs[k]).id = k
                  /\ run_dirs[k].fob = <<fobs[k]>>)
    /\ [][Lines(fobs') # Lines(fobs) =>
            LET k == Len(Lines(fobs')) IN
            /\ Lines(fobs') = Append(Lines(fobs), fobs'[k])
            /\ run_dirs[k].fob = <<fobs'[k]>>
            /\ run_dirs'[k].fob = run_dirs[k].fob]_vars

\* A call with the telemetry sidecar over two runs of different shape has
\* returned.
C13_Witness ==
    /\ call.pc = "idle"
    /\ outcome = "returned"
    /\ call.sos
    /\ Len(runs) = 2
    /\ Len(runs[1]) # Len(runs[2])
    /\ Len(Lines(fobs)) = 2
    /\ fobs[1] # fobs[2]

\* The phase in the line print_campaign_status prints for a group
\* directory, "none" when scanning the directory raises instead.
Phases == <<"NOT SUBMITTED", "NOT STARTED", "IN PROGRESS", "DONE">>

PhaseOfWord(w) ==
    IF w = "IN PROGRESS," THEN "IN PROGRESS"
    ELSE IF w = "DONE," THEN "DONE"
    ELSE w

ReportedPhase(g, dir) ==
    LET r == GroupReport(g[1], g[2], dir) IN
    IF r.raised # "none" THEN "none" ELSE PhaseOfWord(r.line[3])

\* The phase as a function of which of the three files are there.
PresencePhase(dir) ==
    IF dir.jobid.kind = "absent" THEN "NOT SUBMITTED"
    ELSE IF dir.status.kind = "absent" THEN "NOT STARTED"
    ELSE IF ~dir.walltime THEN "IN PROGRESS"
    ELSE "DONE"

PhaseRank(phase) == CHOOSE k \in DOMAIN Phases : Phases[k] = phase

\* The phase of every line the call printed is the phase of its group.
PrintedPhases ==
    printed.ran =>
        \A k \in DOMAIN printed.result.lines :
            LET l == printed.result.lines[k] IN
            \E g \in AllGroups :
                /\ l[1] = <<g[1], "/", g[2]>>
                /\ PhaseOfWord(l[3]) = ReportedPhase(g, campaign[g])

\* C14: for every group directory the reported phase is one of NOT
\* SUBMITTED, NOT STARTED, IN PROGRESS and DONE and is fixed by which of the
\* job-id file, the status document and the walltime file are there; and a
\* step that adds a file never takes the phase of a group backwards in
\* that order.
C14_PhaseTotalAndMonotone ==
    /\ [](\A g \in AllGroups :
            ReportedPhase(g, campaign[g]) = PresencePhase(campaign[g]))
    /\ []PrintedPhases
    /\ [][\A g \in AllGroups :
            PhaseRank(PresencePhase(campaign'[g]))
                >= PhaseRank(PresencePhase(campaign[g]))]_vars

\* The same for the group directories whose status document, if there is
\* one, is a JSON document: there the phase is total and never goes back.
PhaseOnParseableDocuments ==
    /\ [](\A g \in AllGroups :
            campaign[g].status.kind # "malformed" =>
                ReportedPhase(g, campaign[g]) = PresencePhase(campaign[g]))
    /\ []PrintedPhases
    /\ [][\A g \in AllGroups :
            (/\ ReportedPhase(g, campaign[g]) # "none"
             /\ ReportedPhase(g, campaign'[g]) # "none") =>
                PhaseRank(ReportedPhase(g, campaign'[g]))
                    >= PhaseRank(ReportedPhase(g, campaign[g]))]_vars

\* A group went from NOT SUBMITTED to DONE in one step: its job-id file was
\* the last of the three files to be written.
PhaseJump ==
    \E g \in AllGroups :
        /\ campaign[g].jobid.kind # "absent"
        /\ campaign[g].status.kind = "json"
        /\ campaign[g].walltime
        /\ printed.ran
        /\ ReportsOf(g) # {}

\* C12: a run directory that exists before the call is reused: no step of
\* the materialization of a run (lines 98-183) fails because a directory is
\* already there.
C12_ExistingRunDirReused ==
    [][call.pc \in {"stage", "params", "fob_runs", "run_fob", "append"}
         => outcome' # "FileExistsError"]_vars

====
